---------------------------- MODULE Spec2Model ----------------------------
(***************************************************************************)
(* Ceybyte POS: the multi-terminal synchronisation service                 *)
(* (src-tauri/python-api/utils/sync_service.py) and the Terminal record it *)
(* updates (src-tauri/python-api/models/terminal.py).                      *)
(*                                                                         *)
(* The power service (utils/power_service.py) and the terminal registry    *)
(* (utils/network_service.py) follow.                                      *)
(*                                                                         *)
(* The specifications share the definitions below:                         *)
(*   Spec         the transaction journal: queue_transaction,              *)
(*                _process_sync_queue step by step, process crashes        *)
(*   SpecDrain    _process_sync_queue on every queue the journal can hold  *)
(*   SpecResolve  conflict resolution: _resolve_conflicts over conflict    *)
(*                logs drawn from a bounded set                            *)
(*   SpecCycle    whole sync cycles: sync_data and the Terminal record     *)
(*   SpecCorrupt  the journal over damaged sync_queue.json files           *)
(*   SpecServe    POST /terminals/sync requests and the cycles they start  *)
(*   SpecPower    the UPS polls of the power service                       *)
(*   SpecRegister initialize_terminal calls                                *)
(*   SpecRegistry the terminals table under initialize, update, remove,    *)
(*                heartbeat and the connectivity probe                     *)
(*   SpecCheckpoint  TransactionState rows: save, mark recovered, sweep    *)
(*   SpecMonitor  start_monitoring, stop_monitoring and the loop tasks     *)
(*   SpecRace     queue_transaction called while a drain is under way      *)
(***************************************************************************)
EXTENDS Integers, Sequences, FiniteSets, TLC

VARIABLES
    \* ---- journal (sync_queue.json) and the drain ------------------------
    queueFile,    \* sync_queue.json: [valid |-> parses as JSON, q |-> its list]
    store,        \* authoritative store: the writes committed, in commit order
    pc,           \* position of _process_sync_queue: "idle" | "loop" | "save"
    queue,        \* _process_sync_queue's local list `queue`
    todo,         \* what is left of the copy queue[:] the loop iterates
    processed,    \* _process_sync_queue's local counter `processed`
    errors,       \* _process_sync_queue's local list `errors`
    nextSeq,      \* history: enqueue order number given to the next entry
    acked,        \* history: entries whose queue_transaction returned True
    dropped,      \* history: entries removed at the retry limit (line 262)
    loaded,       \* history: the list the running/last drain loaded
    attempts,     \* history: the attempts of the running/last drain, in order
    faults,       \* history: [crash, write]: crashes and failed file writes
    \* ---- conflict resolution (conflict_log.json, local_cache.db) --------
    conflictFile, \* conflict_log.json: the list of conflict dicts
    cache,        \* local_cache.db: record id -> the row held, [src, at]
    resolutions,  \* history: every _resolve_single_conflict call and its result
    \* ---- sync cycles (Terminal row, remote tables) ----------------------
    terminal,     \* the Terminal row of this terminal
    remote,       \* main database: record id -> [table, updated_at]
    now,          \* the wall clock datetime.now() reads
    lastCycle,    \* history: what the last sync_data call saw and did
    \* ---- POST /terminals/sync and the network --------------------------
    requests,     \* sync requests received and not yet served, in order
    running,      \* the request whose sync_data call runs (active) or ran last
    reachable,    \* whether the main computer's shared folder is accessible
    \* ---- power service -------------------------------------------------
    ups,              \* current_ups_info: [status, battery_level]
    safe_mode_active, \* PowerService.safe_mode_active
    power_events,     \* PowerEvent rows: the kinds of event that have one
    states,           \* TransactionState rows with receipts: id -> row
    lastPoll,         \* history: what the last _check_ups_status call did
    \* ---- terminal registry ---------------------------------------------
    terminals,    \* the terminals table: a set of Terminal rows
    lastReg,      \* history: the last initialize_terminal call
    service,      \* NetworkService's fields: [current_terminal_id,
                  \* is_main_terminal, network_path]
    lastNet,      \* history: the last send_heartbeat or connectivity probe
    \* ---- transaction checkpoints ----------------------------------------
    checkpoints,  \* TransactionState rows as save, mark and sweep see them
    ckLog,        \* history: [saves, called, marked, purged]
    \* ---- monitoring loop ------------------------------------------------
    monitoring_active, \* PowerService.monitoring_active
    tasks,             \* the _monitoring_loop tasks created, in order
    power_terminal_id, \* PowerService.terminal_id
    \* ---- callers of queue_transaction -----------------------------------
    raced         \* history: entries enqueued between a drain's load and save

jvars == <<queueFile, store, pc, queue, todo, processed, errors,
           nextSeq, acked, dropped, loaded, attempts, faults>>
cvars == <<conflictFile, cache, resolutions>>
svars == <<terminal, remote, now, lastCycle>>
tvars == <<requests, running, reachable>>
pvars == <<ups, safe_mode_active, power_events, states, lastPoll>>
nvars == <<terminals, lastReg, service, lastNet>>
kvars == <<checkpoints, ckLog>>
mvars == <<monitoring_active, tasks, power_terminal_id>>
xvars == <<kvars, mvars, raced>>
vars  == <<jvars, cvars, svars, tvars, pvars, nvars, xvars>>

---------------------------------------------------------------------------
(* Bounds of the model *)

\* queue_transaction calls explored
MaxEnqueue == 2
\* crashes plus failed writes of sync_queue.json explored
MaxFaults == 1

---------------------------------------------------------------------------
(* Program constants *)

\* sync_service.py:261  `if transaction['retry_count'] >= 3`
MaxRetries == 3

\* _process_queued_transaction dispatches on these; anything else returns False
KnownTypes == {"sale", "customer_update", "product_update"}
\* transaction types the callers pass in (one known pair, one unknown)
Types == {"sale", "customer_update", "other"}

---------------------------------------------------------------------------
(* Sequences *)

FaultCount == faults.crash + faults.write

SeqsOf(s) == {s[i].seq : i \in DOMAIN s}

\* the dict as list.remove's == sees it: everything but the history number
Fields(e) == [type |-> e.type,
              has_retry |-> e.has_retry, retry_count |-> e.retry_count]

RECURSIVE FirstEqual(_, _, _)
FirstEqual(s, t, i) ==
    IF i > Len(s) THEN 0
    ELSE IF Fields(s[i]) = Fields(t) THEN i
    ELSE FirstEqual(s, t, i + 1)

\* list.remove(t): drops the first element equal to t
ListRemove(s, t) ==
    LET k == FirstEqual(s, t, 1)
    IN  IF k = 0 THEN s
        ELSE [i \in 1..(Len(s) - 1) |-> IF i < k THEN s[i] ELSE s[i + 1]]

\* transaction['retry_count'] += 1 on the dict object shared by queue and copy
BumpRetry(s, t) ==
    [i \in DOMAIN s |->
        IF s[i].seq = t.seq
        THEN [s[i] EXCEPT !.retry_count = @ + 1]
        ELSE s[i]]

---------------------------------------------------------------------------
(* sync_queue.json *)

\* _load_sync_queue: the list in the file; [] when it is missing or unreadable
LoadSyncQueue == IF queueFile.valid THEN queueFile.q ELSE <<>>

\* _save_sync_queue(q) under one outcome of open()/json.dump():
\*   "ok"     the file holds q
\*   "failed" open() raised: the file is as before (the error is only logged)
\*   "torn"   the file was truncated and the dump did not finish: not JSON
SaveSyncQueue(q, outcome) ==
    CASE outcome = "ok"     -> [valid |-> TRUE, q |-> q]
      [] outcome = "failed" -> queueFile
      [] outcome = "torn"   -> [valid |-> FALSE, q |-> <<>>]

SaveOutcomes == {"ok", "failed", "torn"}

---------------------------------------------------------------------------
(* The journal: queue_transaction *)

\* lastCycle: `called`/`dirty`: a sync_data call has returned / the queue or
\* the remote tables changed since; the other fields describe the call that
\* has just returned and are cleared by the next step of anything else:
\* `ran`: it was not skipped; `worked`: it changed the store, the queue
\* file, the cache or the conflict log; `mutated`: or the Terminal row
NoCycle == [called |-> FALSE, dirty |-> FALSE, returned |-> FALSE,
            rerun |-> FALSE, force |-> FALSE, synced_before |-> FALSE,
            ran |-> FALSE, worked |-> FALSE, mutated |-> FALSE]

\* lastCycle once something other than sync_data has happened
After(changed) ==
    [NoCycle EXCEPT !.called = lastCycle.called,
                    !.dirty = lastCycle.dirty \/ changed]

\* the entry queue_transaction appends: retry_count = 0, sync_status pending
NewEntry(type) ==
    [seq |-> nextSeq, type |-> type, has_retry |-> TRUE, retry_count |-> 0]

\* queue_transaction: load, append, save, return True.  _save_sync_queue
\* swallows its exception, so True is returned under every save outcome.
\* _update_pending_sync_count only reads the queue.
QueueTransaction(type, outcome) ==
    /\ UNCHANGED <<tvars, pvars, nvars, xvars>>
    /\ pc = "idle"
    /\ nextSeq <= MaxEnqueue
    /\ outcome # "ok" => FaultCount < MaxFaults
    /\ queueFile' = SaveSyncQueue(Append(LoadSyncQueue, NewEntry(type)),
                                  outcome)
    /\ acked' = acked \cup {nextSeq}
    /\ nextSeq' = nextSeq + 1
    /\ faults' = IF outcome = "ok" THEN faults
                 ELSE [faults EXCEPT !.write = @ + 1]
    /\ lastCycle' = After(TRUE)
    /\ UNCHANGED <<store, pc, queue, todo, processed, errors,
                   dropped, loaded, attempts>>
    /\ UNCHANGED <<cvars, terminal, remote, now>>

---------------------------------------------------------------------------
(* The journal: _process_sync_queue *)

\* _process_queued_transaction: True iff the type is known and the handler
\* (_process_sale_transaction, ...) committed; every exception gives False
ProcessQueuedTransaction(t, dbOk) == t.type \in KnownTypes /\ dbOk

\* the order in which the loop visits the loaded list: `for t in queue[:]`
IterationOrder(q) == q

\* one pass of the loop body (lines 250-266) over transaction t:
\* the new `queue`, the error appended (or "none"), the entry dropped at the
\* retry limit (or 0)
LoopBody(q, t, success) ==
    IF success
    THEN [queue |-> ListRemove(q, t), error |-> "none", dropped |-> 0]
    ELSE IF ~t.has_retry
    THEN \* transaction['retry_count'] raises KeyError: caught at line 265
         [queue |-> q, error |-> "exception", dropped |-> 0]
    ELSE LET t1 == [t EXCEPT !.retry_count = @ + 1]
             q1 == BumpRetry(q, t)
         IN  IF t1.retry_count >= MaxRetries
             THEN [queue |-> ListRemove(q1, t1), error |-> "max_retries",
                   dropped |-> q1[FirstEqual(q1, t1, 1)].seq]
             ELSE [queue |-> q1, error |-> "none", dropped |-> 0]

\* mutant of RestOfLoop: a failed attempt leaves the loop
RestOfLoop_StopAtFailure(rest, success) ==
    IF success THEN Tail(rest) ELSE <<>>

\* what the loop still visits after one iteration: the except clause is
\* inside the for, so a failure does not leave the loop
RestOfLoop(rest, success) == Tail(rest)

\* lines 245-247: load the queue, copy it for the loop
DrainStart ==
    /\ UNCHANGED <<tvars, pvars, nvars, xvars>>
    /\ pc = "idle"
    /\ pc' = "loop"
    /\ queue' = LoadSyncQueue
    /\ todo' = IterationOrder(LoadSyncQueue)
    /\ processed' = 0
    /\ errors' = <<>>
    /\ loaded' = LoadSyncQueue
    /\ attempts' = <<>>
    /\ UNCHANGED <<queueFile, store, nextSeq, acked, dropped, faults>>
    /\ UNCHANGED <<cvars, svars>>

\* lines 249-266: one iteration; dbOk is whether the handler's commit succeeded
DrainStep(dbOk) ==
    /\ UNCHANGED <<tvars, pvars, nvars, xvars>>
    /\ pc = "loop"
    /\ todo # <<>>
    /\ LET t       == Head(todo)
           success == ProcessQueuedTransaction(t, dbOk)
           r       == LoopBody(queue, t, success)
       IN  /\ store' = IF success
                       THEN Append(store, [seq |-> t.seq, type |-> t.type])
                       ELSE store
           /\ queue' = r.queue
           /\ processed' = IF success THEN processed + 1 ELSE processed
           /\ errors' = IF r.error = "none" THEN errors
                        ELSE Append(errors, r.error)
           /\ dropped' = IF r.dropped = 0 THEN dropped
                         ELSE dropped \cup {r.dropped}
           /\ attempts' = Append(attempts, [seq |-> t.seq, ok |-> success])
    /\ todo' = RestOfLoop(todo, ProcessQueuedTransaction(Head(todo), dbOk))
    /\ UNCHANGED <<queueFile, pc, nextSeq, acked, loaded, faults>>
    /\ UNCHANGED <<cvars, svars>>

\* the function's locals are gone once it returns or the process dies
LocalsGone ==
    /\ pc' = "idle"
    /\ queue' = <<>>
    /\ todo' = <<>>
    /\ processed' = 0
    /\ errors' = <<>>
    /\ loaded' = <<>>
    /\ attempts' = <<>>

\* the dict _process_sync_queue returns (lines 271-275), read at the end of
\* the loop
DrainResult ==
    [processed |-> processed, errors |-> errors, remaining |-> Len(queue)]

\* lines 268-275: save the updated queue (errors swallowed) and return
DrainSave(outcome) ==
    /\ UNCHANGED <<tvars, pvars, nvars, xvars>>
    /\ pc = "loop"
    /\ todo = <<>>
    /\ outcome # "ok" => FaultCount < MaxFaults
    /\ queueFile' = SaveSyncQueue(queue, outcome)
    /\ faults' = IF outcome = "ok" THEN faults
                 ELSE [faults EXCEPT !.write = @ + 1]
    /\ LocalsGone
    /\ UNCHANGED <<store, nextSeq, acked, dropped>>
    /\ UNCHANGED <<cvars, svars>>

\* the process dies inside a drain and is started again: memory is lost,
\* sync_queue.json and the store are as they were
Crash ==
    /\ UNCHANGED <<tvars, pvars, nvars, xvars>>
    /\ pc = "loop"
    /\ FaultCount < MaxFaults
    /\ faults' = [faults EXCEPT !.crash = @ + 1]
    /\ LocalsGone
    /\ UNCHANGED <<queueFile, store, nextSeq, acked, dropped>>
    /\ UNCHANGED <<cvars, svars>>

---------------------------------------------------------------------------
(* Initial values of the parts a specification leaves alone *)

\* a Terminal row as the column defaults leave it (terminal.py:58-60);
\* last_sync_time 0 stands for None
NewTerminal == [sync_status |-> "pending", pending_sync_count |-> 0,
                last_sync_time |-> 0]

JournalInit ==
    /\ queueFile = [valid |-> TRUE, q |-> <<>>]
    /\ store = <<>>
    /\ pc = "idle"
    /\ queue = <<>>
    /\ todo = <<>>
    /\ processed = 0
    /\ errors = <<>>
    /\ nextSeq = 1
    /\ acked = {}
    /\ dropped = {}
    /\ loaded = <<>>
    /\ attempts = <<>>
    /\ faults = [crash |-> 0, write |-> 0]

ConflictIdle ==
    /\ conflictFile = <<>>
    /\ cache = <<>>
    /\ resolutions = {}

CycleIdle ==
    /\ terminal = NewTerminal
    /\ remote = <<>>
    /\ now = 1
    /\ lastCycle = NoCycle

\* no request is being served
NoRequest == [force |-> FALSE, during |-> FALSE, active |-> FALSE]

ServeIdle ==
    /\ requests = <<>>
    /\ running = NoRequest
    /\ reachable = TRUE

\* UPSInfo.__init__ (lines 34-36) and PowerService.__init__ (48-49)
NewUPSInfo == [status |-> "not_detected", battery_level |-> 0]

\* lastPoll: the polls run on `platform`; the last step was a poll (polled)
\* that found old_status and safe_mode_active = was_safe, called
\* _log_power_event for a status change (change_logged) which inserted the
\* row (change_stored), and ran _process_pending_receipts (flushed)
NoPoll == [platform |-> "Other", polled |-> FALSE,
           old_status |-> "not_detected", was_safe |-> FALSE,
           change_logged |-> FALSE, change_stored |-> FALSE,
           flushed |-> FALSE]

PowerIdle ==
    /\ ups = NewUPSInfo
    /\ safe_mode_active = FALSE
    /\ power_events = {}
    /\ states = <<>>
    /\ lastPoll = NoPoll

NoRegistration == [called |-> FALSE, raised |-> FALSE, hardware_id |-> "",
                   terminal_id |-> ""]

\* NetworkService.__init__ (network_service.py:36-41); "" stands for None
NewService == [current_terminal_id |-> "", is_main_terminal |-> FALSE,
               network_path |-> ""]

\* the dict check_network_connectivity starts from (lines 176-183);
\* latency_ms -1 stands for None
NoReport == [network_available |-> FALSE, main_computer_reachable |-> FALSE,
             shared_folder_accessible |-> FALSE,
             database_accessible |-> FALSE, latency_ms |-> -1]

NoNetCall == [op |-> "none", returned |-> FALSE, terminal_id |-> "",
              report |-> NoReport]

RegistryIdle ==
    /\ terminals = {}
    /\ lastReg = NoRegistration
    /\ service = NewService
    /\ lastNet = NoNetCall

\* session ids of the transactions that are checkpointed
Sessions == {"sess-1", "sess-2"}

\* nothing saved, marked or purged yet
NoCkLog == [saves |-> [s \in Sessions |-> 0], called |-> {}, marked |-> {},
            resaved |-> {}, purged |-> {}, spared |-> {}]

CheckpointIdle ==
    /\ checkpoints = {}
    /\ ckLog = NoCkLog

\* PowerService.__init__ (power_service.py:50-51): no loop, not monitoring
MonitorIdle ==
    /\ monitoring_active = FALSE
    /\ tasks = <<>>
    /\ power_terminal_id = "MAIN-001"

LaterIdle == CheckpointIdle /\ MonitorIdle /\ raced = {}

OthersIdle == ServeIdle /\ PowerIdle /\ RegistryIdle /\ LaterIdle

---------------------------------------------------------------------------
(* Spec: the journal *)

Init == JournalInit /\ ConflictIdle /\ CycleIdle /\ OthersIdle

Next ==
    \/ \E type \in Types, outcome \in SaveOutcomes :
          QueueTransaction(type, outcome)
    \/ DrainStart
    \/ \E dbOk \in BOOLEAN : DrainStep(dbOk)
    \/ \E outcome \in SaveOutcomes : DrainSave(outcome)
    \/ Crash

Spec == Init /\ [][Next]_vars

---------------------------------------------------------------------------
(* SpecDrain: _process_sync_queue run on every queue the journal can hold  *)

\* entries of the longest queue a drain is run on
MaxQueueLen == 5

\* retry counts along a queue: an entry is appended with 0 and is attempted in
\* every drain the entries behind it are, so the counts never increase to
\* the right; a count of MaxRetries is removed before it is saved
RetryProfiles(n) ==
    {rc \in [1..n -> 0..(MaxRetries - 1)] :
        \A i \in 1..(n - 1) : rc[i] >= rc[i + 1]}

QueuesOfLen(n) ==
    {[i \in 1..n |-> [seq |-> i, type |-> ty[i], has_retry |-> TRUE,
                      retry_count |-> rc[i]]] :
        ty \in [1..n -> Types], rc \in RetryProfiles(n)}

DrainInit ==
    /\ \E n \in 0..MaxQueueLen : \E q \in QueuesOfLen(n) :
          /\ queueFile = [valid |-> TRUE, q |-> q]
          /\ nextSeq = n + 1
          /\ acked = 1..n
    /\ store = <<>>
    /\ pc = "idle"
    /\ queue = <<>>
    /\ todo = <<>>
    /\ processed = 0
    /\ errors = <<>>
    /\ dropped = {}
    /\ loaded = <<>>
    /\ attempts = <<>>
    /\ faults = [crash |-> 0, write |-> 0]
    /\ ConflictIdle
    /\ CycleIdle
    /\ OthersIdle

DrainNext ==
    \/ DrainStart /\ store = <<>> /\ dropped = {}
    \/ \E dbOk \in BOOLEAN : DrainStep(dbOk)
    \/ DrainSave("ok")

SpecDrain == DrainInit /\ [][DrainNext]_vars

---------------------------------------------------------------------------
(* Claims about the journal *)

AppliedSeqs == {store[i].seq : i \in DOMAIN store}

TimesApplied(n) == Cardinality({i \in DOMAIN store : store[i].seq = n})

\* C1 (as claimed): every entry whose queue_transaction returned True is in
\* the queue _load_sync_queue reads back (after a restart the file is all
\* there is), until a drain has applied it or removed it at the retry limit,
\* whatever the outcome of the file write was.
C1_AckedEntryIsDurable ==
    \A n \in acked :
        \/ n \in SeqsOf(LoadSyncQueue)
        \/ n \in AppliedSeqs
        \/ n \in dropped

\* C2 (as claimed): with no crash and no failed write, entries of the same
\* type (target table) reach the store in enqueue order: no entry is applied
\* after a later-enqueued entry of its table.
C2_AppliedInEnqueueOrder ==
    FaultCount = 0 =>
        \A i, j \in DOMAIN store :
            (i < j /\ store[i].type = store[j].type)
                => store[i].seq <= store[j].seq

\* C3: at the end of the loop of one _process_sync_queue run, every loaded
\* entry has been attempted exactly once, in queue order, whatever failed
\* before it; an entry whose attempt succeeded is in the store and no longer
\* in the queue to be saved; an entry whose attempt failed below the retry
\* limit is still in that queue with its retry count one higher.  While the
\* loop runs the attempts are the loaded list's prefix.
C3_DrainAttemptsEveryEntryOnce ==
    pc = "loop" =>
        /\ Len(attempts) + Len(todo) = Len(loaded)
        /\ \A i \in DOMAIN attempts :
              /\ attempts[i].seq = loaded[i].seq
              /\ attempts[i].ok =>
                    /\ loaded[i].seq \notin SeqsOf(queue)
                    /\ loaded[i].seq \in AppliedSeqs
              /\ (~attempts[i].ok /\ loaded[i].retry_count + 1 < MaxRetries) =>
                    \E k \in DOMAIN queue :
                        /\ queue[k].seq = loaded[i].seq
                        /\ queue[k].retry_count = loaded[i].retry_count + 1
        /\ processed = Cardinality({i \in DOMAIN attempts : attempts[i].ok})

\* C3 witness: the spec's example.  Five entries were loaded, the third
\* failed, the others were attempted and succeeded, and the queue to be saved
\* holds the third alone, its retry count raised.
C3_FiveEntriesThirdFails ==
    /\ pc = "loop"
    /\ todo = <<>>
    /\ Len(loaded) = 5
    /\ \A i \in 1..5 : attempts[i].ok <=> (i # 3)
    /\ SeqsOf(queue) = {3}
    /\ queue[1].retry_count = loaded[3].retry_count + 1
    /\ {4, 5} \subseteq AppliedSeqs

\* C4 (as claimed): an entry removed from the queue at the retry limit is
\* never simply gone: once the drain has returned it is still held by the
\* journal, where it can be queried.
C4_DroppedEntryRetained ==
    pc = "idle" =>
        \A n \in dropped : \E i \in DOMAIN queueFile.q : queueFile.q[i].seq = n

---------------------------------------------------------------------------
(* Conflict resolution: _resolve_single_conflict *)

\* conflicts of the longest conflict log resolved
MaxConflicts == 2

\* the strategy _resolve_single_conflict implements, and one it does not
Strategies == {"last_write_wins", "manual"}

\* timestamp strings a conflict dict carries: none or unparsable, and two
\* ISO datetimes
TsStrings == {"", "2025-01-01T10:00:00", "2025-01-01T11:00:00"}

\* datetime.fromisoformat raises on "" (and a missing key raises KeyError)
IsoOk(s) == s \in {"2025-01-01T10:00:00", "2025-01-01T11:00:00"}

\* datetime.fromisoformat, as the instant's place in time
FromIsoFormat(s) ==
    CASE s = "2025-01-01T10:00:00" -> 1
      [] s = "2025-01-01T11:00:00" -> 2
      [] OTHER -> 0

\* the terminal that resolves (the local side of every conflict) and the
\* terminals the remote versions come from
ThisTerminal == 2
RemoteTerminals == {1, 3}

NoRow == [src |-> "none", at |-> 0]

\* mutant of WinningSide: the comparison reversed
WinningSide_EarlierWins(c) ==
    IF FromIsoFormat(c.remote_timestamp) < FromIsoFormat(c.local_timestamp)
    THEN "remote" ELSE "local"

\* mutant of WinningSide: a tie goes to the remote version
WinningSide_TieToRemote(c) ==
    IF FromIsoFormat(c.remote_timestamp) >= FromIsoFormat(c.local_timestamp)
    THEN "remote" ELSE "local"

\* mutant of WinningSide: a tie goes to whichever side was not tried before
WinningSide_TieByAttempt(c) ==
    IF \/ FromIsoFormat(c.remote_timestamp) > FromIsoFormat(c.local_timestamp)
       \/ /\ FromIsoFormat(c.remote_timestamp) = FromIsoFormat(c.local_timestamp)
          /\ c.retry_count > 0
    THEN "remote" ELSE "local"

\* lines 382 and 390: remote iff remote_time > local_time
WinningSide(c) ==
    IF FromIsoFormat(c.remote_timestamp) > FromIsoFormat(c.local_timestamp)
    THEN "remote" ELSE "local"

\* _resolve_single_conflict; saveOk is whether save_offline_data succeeded.
\* `wrote` is the version handed to save_offline_data when it succeeded.
ResolveSingleConflict(c, saveOk) ==
    IF c.strategy = "last_write_wins"
    THEN IF IsoOk(c.local_timestamp) /\ IsoOk(c.remote_timestamp)
         THEN [resolved |-> saveOk, strategy |-> c.strategy,
               winner |-> WinningSide(c),
               wrote |-> IF saveOk THEN WinningSide(c) ELSE "none"]
         ELSE \* fromisoformat / KeyError, caught at line 396
              [resolved |-> FALSE, strategy |-> "none", winner |-> "none",
               wrote |-> "none"]
    ELSE \* line 394: Unknown strategy
         [resolved |-> FALSE, strategy |-> "none", winner |-> "none",
          wrote |-> "none"]

---------------------------------------------------------------------------
(* Conflict resolution: _resolve_conflicts *)

\* conflict_log.remove(conflict): ids are unique in a log
RemoveConflict(log, c) ==
    LET Other(x) == x.id # c.id
    IN  SelectSeq(log, Other)

\* the record of one _resolve_single_conflict call
Resolution(c, r) ==
    [id |-> c.id, strategy |-> c.strategy,
     local_timestamp |-> c.local_timestamp,
     remote_timestamp |-> c.remote_timestamp,
     remote_origin |-> c.remote_origin, retry_count |-> c.retry_count,
     resolved |-> r.resolved, reported |-> r.strategy, winner |-> r.winner,
     wrote |-> r.wrote]

\* lines 345-360 from the i-th conflict of the copy on.  st holds the log
\* being edited, the cache, the resolutions returned and the call history.
RECURSIVE ResolveFrom(_, _, _, _)
ResolveFrom(i, copy, oks, st) ==
    IF i > Len(copy) THEN st
    ELSE
      LET c == copy[i]
          r == ResolveSingleConflict(c, oks[i])
          hist == st.hist \cup {Resolution(c, r)}
          cache1 == IF r.wrote = "none" THEN st.cache
                    ELSE [st.cache EXCEPT ![c.id] = [src |-> r.wrote, at |-> 0]]
      IN  IF r.resolved
          THEN ResolveFrom(i + 1, copy, oks,
                   [log |-> RemoveConflict(st.log, c), cache |-> cache1,
                    count |-> st.count + 1, hist |-> hist])
          ELSE
            LET c1 == [c EXCEPT !.retry_count = @ + 1]
                log1 == [k \in DOMAIN st.log |->
                            IF st.log[k].id = c.id THEN c1 ELSE st.log[k]]
            IN  ResolveFrom(i + 1, copy, oks,
                   [log |-> IF c1.retry_count >= MaxRetries
                            THEN RemoveConflict(log1, c1) ELSE log1,
                    cache |-> cache1, count |-> st.count, hist |-> hist])

\* _resolve_conflicts run over the log in conflict_log.json
ResolveAll(oks) ==
    ResolveFrom(1, conflictFile, oks,
        [log |-> conflictFile, cache |-> cache, count |-> 0,
         hist |-> resolutions])

\* _save_conflict_log swallows its exception: on failure the file stays
SaveConflictLog(log, saved) == IF saved THEN log ELSE conflictFile

\* _resolve_conflicts as one step: oks[i] is whether the cache write for the
\* i-th conflict succeeded, saved whether conflict_log.json was written
ResolveConflicts(oks, saved) ==
    /\ UNCHANGED <<tvars, pvars, nvars, xvars>>
    /\ conflictFile # <<>>
    /\ ~saved => FaultCount < MaxFaults
    /\ LET st == ResolveAll(oks)
       IN  /\ conflictFile' = SaveConflictLog(st.log, saved)
           /\ cache' = st.cache
           /\ resolutions' = st.hist
    /\ faults' = IF saved THEN faults ELSE [faults EXCEPT !.write = @ + 1]
    /\ UNCHANGED <<queueFile, store, pc, queue, todo, processed, errors,
                   nextSeq, acked, dropped, loaded, attempts>>
    /\ UNCHANGED svars

---------------------------------------------------------------------------
(* SpecResolve: _resolve_conflicts on every conflict log up to MaxConflicts *)

\* what a conflict dict can hold, as far as _resolve_single_conflict reads
\* it: under an unknown strategy the timestamps are never read
ConflictShapes ==
    [strategy : {"last_write_wins"},
     local_timestamp : TsStrings, remote_timestamp : TsStrings]
    \cup [strategy : Strategies \ {"last_write_wins"},
          local_timestamp : {""}, remote_timestamp : {""}]

\* the terminal the remote version of conflict `id` comes from: one with a
\* lower id than this terminal for odd ids, one with a higher id for even
RemoteOrigin(id) ==
    IF id % 2 = 1
    THEN CHOOSE t \in RemoteTerminals : t < ThisTerminal
    ELSE CHOOSE t \in RemoteTerminals : t > ThisTerminal

\* conflict.get('retry_count', 0): a new conflict counts from 0
ConflictLogs(n) ==
    {[i \in 1..n |->
        [id |-> i, strategy |-> sh[i].strategy,
         local_timestamp |-> sh[i].local_timestamp,
         remote_timestamp |-> sh[i].remote_timestamp,
         remote_origin |-> RemoteOrigin(i), retry_count |-> 0]] :
        sh \in [1..n -> ConflictShapes]}

ResolveInit ==
    /\ JournalInit
    /\ CycleIdle
    /\ OthersIdle
    /\ \E n \in 1..MaxConflicts : \E log \in ConflictLogs(n) :
          /\ conflictFile = log
          /\ cache = [i \in 1..n |-> NoRow]
    /\ resolutions = {}

\* every cache write may fail; conflict_log.json itself is written
ResolveNext ==
    \E oks \in [DOMAIN conflictFile -> BOOLEAN] : ResolveConflicts(oks, TRUE)

SpecResolve == ResolveInit /\ [][ResolveNext]_vars

---------------------------------------------------------------------------
(* Claims about conflict resolution *)

ValidPair(r) == IsoOk(r.local_timestamp) /\ IsoOk(r.remote_timestamp)

Tie(r) ==
    /\ r.strategy = "last_write_wins"
    /\ ValidPair(r)
    /\ FromIsoFormat(r.local_timestamp) = FromIsoFormat(r.remote_timestamp)

\* the side whose modification timestamp is the later one
LaterSide(r) ==
    IF FromIsoFormat(r.remote_timestamp) > FromIsoFormat(r.local_timestamp)
    THEN "remote" ELSE "local"

\* C6: every _resolve_single_conflict call on a last_write_wins conflict with
\* valid, distinct timestamps names the later version the winner (remote iff
\* remote_timestamp > local_timestamp), reports strategy last_write_wins, and
\* hands that version and no other to the cache: when the call reports
\* resolved the row holds the winner's data, and the row never holds the
\* loser's.
C6_LaterTimestampWins ==
    \A r \in resolutions :
        (/\ r.strategy = "last_write_wins"
         /\ ValidPair(r)
         /\ r.local_timestamp # r.remote_timestamp)
        => /\ r.winner = LaterSide(r)
           /\ r.reported = "last_write_wins"
           /\ r.wrote \in {"none", r.winner}
           /\ r.resolved <=> r.wrote = r.winner
           /\ cache[r.id].src \in {"none", r.winner}
           /\ r.resolved => cache[r.id].src = r.winner

\* C6 witness: a conflict whose remote version is later was resolved to
\* remote and one whose local version is later to local, both written.
C6_BothDirectionsResolved ==
    /\ \E r \in resolutions :
          /\ r.resolved /\ r.winner = "remote"
          /\ FromIsoFormat(r.remote_timestamp) > FromIsoFormat(r.local_timestamp)
          /\ cache[r.id].src = "remote"
    /\ \E r \in resolutions :
          /\ r.resolved /\ r.winner = "local"
          /\ FromIsoFormat(r.remote_timestamp) < FromIsoFormat(r.local_timestamp)
          /\ cache[r.id].src = "local"

\* C7 (as claimed): a conflict that a cycle resolved still has its record
\* stored after the cycle.
C7_ResolvedConflictStaysStored ==
    \A r \in resolutions :
        r.resolved => \E i \in DOMAIN conflictFile : conflictFile[i].id = r.id

\* C8: any two _resolve_single_conflict calls on the same conflict with equal
\* and valid timestamps, in whichever cycle and at whichever retry they ran,
\* produced the same winner.
C8_TieResolutionRepeatable ==
    \A r1, r2 \in resolutions :
        (/\ Tie(r1)
         /\ r1.id = r2.id
         /\ r1.local_timestamp = r2.local_timestamp
         /\ r1.remote_timestamp = r2.remote_timestamp
         /\ r1.strategy = r2.strategy)
        => r1.winner = r2.winner

\* C8 witness: a tie was resolved again in a later cycle, after its first
\* cache write had failed.
C8_TieResolvedTwice ==
    \E r1, r2 \in resolutions :
        /\ Tie(r1)
        /\ r1.id = r2.id
        /\ r1.retry_count = 0 /\ ~r1.resolved
        /\ r2.retry_count > 0 /\ r2.resolved

\* the origin terminal of the version a resolution chose
WinnerOrigin(r) ==
    IF r.winner = "local" THEN ThisTerminal ELSE r.remote_origin

\* C9 (as claimed): on equal timestamps the winner is decided by the order of
\* the two origin terminal ids: under one fixed rule, the lower id or the
\* higher id, whichever side is the local one.
C9_TieDecidedByTerminalId ==
    \/ \A r \in resolutions :
          Tie(r) => (WinnerOrigin(r) < ThisTerminal
                     \/ WinnerOrigin(r) < r.remote_origin)
    \/ \A r \in resolutions :
          Tie(r) => (WinnerOrigin(r) > ThisTerminal
                     \/ WinnerOrigin(r) > r.remote_origin)

\* C9 (amended): on equal timestamps the local version wins, whatever the
\* ids of the two origin terminals.
C9_TieGoesToLocal ==
    \A r \in resolutions : Tie(r) => r.winner = "local"

\* C9 witness: ties against a terminal with a lower id and against one with a
\* higher id were both resolved.
C9_TiesAgainstBothOrders ==
    /\ \E r \in resolutions :
          Tie(r) /\ r.resolved /\ r.remote_origin < ThisTerminal
    /\ \E r \in resolutions :
          Tie(r) /\ r.resolved /\ r.remote_origin > ThisTerminal

---------------------------------------------------------------------------
(* Sync cycles: sync_data *)

\* ids of the main database's records that are pulled, and each one's table
RecordIds == {1}
TableOf(k) == IF k % 2 = 1 THEN "products" ELSE "customers"

\* readings of the wall clock
MaxClock == 2

\* sync_data's tables_to_sync (line 110), in order
TablesToSync == <<"products", "customers", "suppliers", "categories">>
\* the tables _sync_table has a model for (lines 294-300)
PulledTables == {"products", "customers"}

\* Terminal.needs_sync
NeedsSync(t) ==
    t.sync_status \in {"pending", "failed"} \/ t.pending_sync_count > 0

\* _process_sync_queue's loop from the i-th entry of the copy on
RECURSIVE DrainFrom(_, _, _, _)
DrainFrom(i, copy, dbOks, st) ==
    IF i > Len(copy) THEN st
    ELSE
      LET t == copy[i]
          success == ProcessQueuedTransaction(t, dbOks[i])
          r == LoopBody(st.queue, t, success)
      IN  DrainFrom(i + 1, copy, dbOks,
              [queue |-> r.queue,
               store |-> IF success
                         THEN Append(st.store, [seq |-> t.seq, type |-> t.type])
                         ELSE st.store,
               processed |-> IF success THEN st.processed + 1
                             ELSE st.processed,
               errors |-> IF r.error = "none" THEN st.errors
                          ELSE Append(st.errors, r.error),
               dropped |-> IF r.dropped = 0 THEN st.dropped
                           ELSE st.dropped \cup {r.dropped}])

\* _process_sync_queue as sync_data calls it: the whole loop
DrainAll(dbOks) ==
    DrainFrom(1, IterationOrder(LoadSyncQueue), dbOks,
        [queue |-> LoadSyncQueue, store |-> store, processed |-> 0,
         errors |-> <<>>, dropped |-> dropped])

\* the records _sync_table queries: all of the table when last_sync is None,
\* else those with updated_at > last_sync (lines 302-306)
UpdatedSince(table, last_sync) ==
    {k \in DOMAIN remote :
        /\ remote[k].table = table
        /\ (last_sync # 0 => remote[k].updated_at > last_sync)}

\* _sync_table for every table of TablesToSync: the cache after the pulls
\* (save_offline_data is INSERT OR REPLACE; a failed write is not an error
\* of the table) and the errors of the tables whose query raised
PullCache(last_sync, pullOk, writeOk) ==
    [k \in DOMAIN cache |->
        IF /\ k \in DOMAIN remote
           /\ remote[k].table \in PulledTables
           /\ pullOk[remote[k].table]
           /\ k \in UpdatedSince(remote[k].table, last_sync)
           /\ writeOk[k]
        THEN [src |-> "main", at |-> remote[k].updated_at]
        ELSE cache[k]]

PullErrors(pullOk) ==
    SelectSeq(TablesToSync, LAMBDA tb : tb \in PulledTables /\ ~pullOk[tb])

\* mutant of RunsCycle: the needs_sync check is skipped
RunsCycle_Always(force) == TRUE

\* lines 98-102: the cycle runs when forced or when the terminal needs sync
RunsCycle(force) == force \/ NeedsSync(terminal)

\* lines 128-131: the Terminal row after a cycle with the given errors
TerminalAfterCycle(errs) ==
    [sync_status |-> IF errs = <<>> THEN "synced" ELSE "failed",
     pending_sync_count |-> 0,
     last_sync_time |-> now]

\* sync_data(terminal_id, force) as one step.  known: a Terminal row has
\* this terminal_id (lines 90-96); dbOks, saveOutcome: the drain; pullOk,
\* writeOk: the table pulls; oks, logSaved: conflict resolution; committed:
\* db.commit() at line 133, whose exception leaves the row as it was.
\* The history of resolver calls is kept under SpecResolve only.
SyncData(known, force, dbOks, saveOutcome, pullOk, writeOk, oks, logSaved, committed) ==
    /\ UNCHANGED <<reachable, pvars, nvars, xvars>>
    /\ pc = "idle"
    /\ (saveOutcome # "ok" \/ ~logSaved \/ ~committed)
          => (known /\ RunsCycle(force) /\ FaultCount < MaxFaults)
    /\ IF known /\ RunsCycle(force)
       THEN LET d  == DrainAll(dbOks)
                c1 == PullCache(terminal.last_sync_time, pullOk, writeOk)
                st == ResolveFrom(1, conflictFile, oks,
                          [log |-> conflictFile, cache |-> c1, count |-> 0,
                           hist |-> {}])
                errs == d.errors \o PullErrors(pullOk)
            IN  /\ queueFile' = SaveSyncQueue(d.queue, saveOutcome)
                /\ store' = d.store
                /\ dropped' = d.dropped
                /\ cache' = st.cache
                /\ conflictFile' = SaveConflictLog(st.log, logSaved)
                /\ terminal' = IF committed THEN TerminalAfterCycle(errs)
                               ELSE terminal
                /\ faults' = IF saveOutcome = "ok" /\ logSaved /\ committed
                             THEN faults
                             ELSE [faults EXCEPT !.write = @ + 1]
       ELSE UNCHANGED <<queueFile, store, dropped, cache, conflictFile,
                        terminal, faults>>
    /\ UNCHANGED resolutions
    /\ lastCycle' =
          [called |-> TRUE, dirty |-> FALSE, returned |-> TRUE,
           rerun |-> lastCycle.called /\ ~lastCycle.dirty,
           force |-> force,
           synced_before |-> /\ terminal.sync_status = "synced"
                             /\ terminal.pending_sync_count = 0,
           ran |-> known /\ RunsCycle(force),
           worked |-> \/ store' # store
                      \/ cache' # cache
                      \/ queueFile' # queueFile
                      \/ conflictFile' # conflictFile,
           mutated |-> \/ terminal' # terminal
                       \/ cache' # cache
                       \/ queueFile' # queueFile
                       \/ conflictFile' # conflictFile]
    /\ UNCHANGED <<pc, queue, todo, processed, errors, nextSeq, acked,
                   loaded, attempts, remote, now>>

\* a record of the main database is modified: updated_at = now
RemoteUpdate(k) ==
    /\ UNCHANGED <<tvars, pvars, nvars, xvars>>
    /\ k \in DOMAIN remote
    /\ remote[k].updated_at # now
    /\ remote' = [remote EXCEPT ![k].updated_at = now]
    /\ lastCycle' = After(TRUE)
    /\ UNCHANGED <<jvars, cvars, terminal, now>>

\* time passes
Tick ==
    /\ UNCHANGED <<tvars, pvars, nvars, xvars>>
    /\ now < MaxClock
    /\ now' = now + 1
    /\ lastCycle' = After(FALSE)
    /\ UNCHANGED <<jvars, cvars, terminal, remote>>

---------------------------------------------------------------------------
(* SpecCycle: sync cycles of one terminal, with enqueues, remote updates   *)
(* and time passing in between                                             *)

\* queue_transaction calls between the cycles
MaxCycleEnqueue == 1

\* conflict logs a cycle starts with: none, a conflict about record 1 that
\* resolves (the remote version is later), one that does not (no strategy
\* for it)
CycleConflictLogs ==
    {<<>>} \cup
    {log \in ConflictLogs(Cardinality(RecordIds)) :
        /\ \/ log[1].strategy # "last_write_wins"
           \/ /\ log[1].local_timestamp = "2025-01-01T10:00:00"
              /\ log[1].remote_timestamp = "2025-01-01T11:00:00"}

CycleInit ==
    /\ JournalInit
    /\ OthersIdle
    /\ \E log \in CycleConflictLogs : conflictFile = log
    /\ cache = [k \in RecordIds |-> NoRow]
    /\ resolutions = {}
    /\ terminal = NewTerminal
    /\ remote = [k \in RecordIds |->
                    [table |-> TableOf(k), updated_at |-> 1]]
    /\ now = 1
    /\ lastCycle = NoCycle

\* the operations of a cycle that can fail: applying the i-th queue entry,
\* the query of the i-th table, the cache write of record k, the save of
\* the winner of the i-th conflict.  A cycle has at most one failure; the
\* files and the commit succeed.
Failure(op, at) == [op |-> op, at |-> at]
NoFailure == Failure("none", 0)
FailurePoints ==
    {NoFailure}
    \cup {Failure("db", i) : i \in DOMAIN LoadSyncQueue}
    \cup {Failure("pull", i) :
             i \in {j \in DOMAIN TablesToSync : TablesToSync[j] \in PulledTables}}
    \cup {Failure("write", k) : k \in DOMAIN remote}
    \cup {Failure("resolve", i) : i \in DOMAIN conflictFile}

\* sync_data for this terminal with failure f
SyncDataWith(force, f) ==
    /\ UNCHANGED <<requests, running>>
    /\ f # NoFailure => RunsCycle(force)
    /\ SyncData(TRUE, force,
                [i \in DOMAIN LoadSyncQueue |-> f # Failure("db", i)],
                "ok",
                [tb \in PulledTables |->
                    \A i \in DOMAIN TablesToSync :
                        TablesToSync[i] = tb => f # Failure("pull", i)],
                [k \in DOMAIN remote |-> f # Failure("write", k)],
                [i \in DOMAIN conflictFile |-> f # Failure("resolve", i)],
                TRUE, TRUE)

\* sync_data for a terminal_id that has no Terminal row
SyncDataUnknown ==
    /\ UNCHANGED <<requests, running>>
    /\ SyncData(FALSE, FALSE,
             [i \in DOMAIN LoadSyncQueue |-> TRUE], "ok",
             [tb \in PulledTables |-> TRUE],
             [k \in DOMAIN remote |-> TRUE],
             [i \in DOMAIN conflictFile |-> TRUE], TRUE, TRUE)

CycleNext ==
    \/ \E type \in Types :
          nextSeq <= MaxCycleEnqueue /\ QueueTransaction(type, "ok")
    \/ \E force \in BOOLEAN, f \in FailurePoints : SyncDataWith(force, f)
    \/ SyncDataUnknown
    \/ \E k \in DOMAIN remote : RemoteUpdate(k)
    \/ Tick

SpecCycle == CycleInit /\ [][CycleNext]_vars

---------------------------------------------------------------------------
(* Claims about the sync cycle, checked under SpecCycle                    *)

\* C10, as stated: a sync_data call that follows another one with no
\* enqueue and no remote update in between (only time may have passed)
\* changes neither the Terminal row, the offline cache, the queue file nor
\* the conflict log.
C10_RerunChangesNothing ==
    (lastCycle.returned /\ lastCycle.rerun) => ~lastCycle.mutated

\* C10, amended: such a call changes nothing when it is not forced and the
\* Terminal row it finds is synced with no pending entries (the call is
\* then skipped at line 98).
C10_UnforcedRerunOfSyncedChangesNothing ==
    (/\ lastCycle.returned
     /\ lastCycle.rerun
     /\ ~lastCycle.force
     /\ lastCycle.synced_before) => ~lastCycle.mutated

\* C10 witness: an unforced second call on a synced terminal has returned,
\* later than the cycle before it, while the queue file still holds an
\* entry and the conflict log a conflict
C10_SkippedRerun ==
    /\ lastCycle.returned
    /\ lastCycle.rerun
    /\ ~lastCycle.force
    /\ lastCycle.synced_before
    /\ now > terminal.last_sync_time
    /\ LoadSyncQueue # <<>>
    /\ conflictFile # <<>>

---------------------------------------------------------------------------
(* The power service: UPS polls *)

\* PowerService.__init__, lines 52-53
low_battery_threshold == 20
critical_battery_threshold == 10
\* _process_pending_receipts, lines 444 and 460: at most 3 print attempts
MaxPrintAttempts == 3

\* platform.system() as _check_ups_status dispatches on it (lines 94-100)
Platforms == {"Windows", "Linux", "Other"}
\* battery charges a UPS tool reports; 0 also stands for no charge line
BatteryLevels == {0, 10, 15, 50}
\* what the status line of the tool's output sets: online (OL, ONLINE, "2"),
\* on_battery (OB, ONBATT, "1"), or nothing, which leaves not_detected
StatusFlags == {"online", "on_battery", "not_detected"}

\* _parse_upsc_output and _parse_apcaccess_output: the status line first,
\* then the battery level overrides it (lines 242-246, 279-283)
ParseUpsOutput(flag, level) ==
    [status |-> IF level <= critical_battery_threshold THEN "critical"
                ELSE IF level <= low_battery_threshold THEN "low_battery"
                ELSE flag,
     battery_level |-> level]

\* _check_linux_ups: found is whether upsc or apcaccess ran with return
\* code 0 and its output parsed; otherwise (no tool, a failing tool, a
\* float() that raises) the fresh UPSInfo is returned as not_detected
CheckLinuxUps(found, flag, level) ==
    IF found THEN ParseUpsOutput(flag, level) ELSE NewUPSInfo

\* _check_windows_ups: result is "ok" (PowerShell printed the battery),
\* "none" (non-zero return code or no output) or "raised" (an exception
\* after the charge line was read: the status is reset, the level stays)
CheckWindowsUps(result, flag, level) ==
    CASE result = "none"   -> NewUPSInfo
      [] result = "raised" -> [status |-> "not_detected",
                               battery_level |-> level]
      [] result = "ok"     ->
           [status |-> IF level > 0
                       THEN IF level <= critical_battery_threshold
                            THEN "critical"
                            ELSE IF level <= low_battery_threshold
                            THEN "low_battery"
                            ELSE IF flag = "not_detected" THEN "online"
                            ELSE flag
                       ELSE flag,
            battery_level |-> level]

\* _simulate_ups_status
SimulateUpsStatus == [status |-> "online", battery_level |-> 85]

\* the UPSInfo objects a poll can obtain on a platform
Readings(platform) ==
    CASE platform = "Windows" ->
           {CheckWindowsUps(r, f, b) :
               r \in {"ok", "none", "raised"}, f \in StatusFlags,
               b \in BatteryLevels}
      [] platform = "Linux" ->
           {CheckLinuxUps(found, f, b) :
               found \in BOOLEAN, f \in StatusFlags, b \in BatteryLevels}
      [] OTHER -> {SimulateUpsStatus}

\* mutant of ShouldActivate: only the critical threshold counts
ShouldActivate_CriticalOnly(info) ==
    info.status = "critical"
    \/ info.battery_level <= critical_battery_threshold

\* _check_safe_mode's should_activate (lines 290-293)
ShouldActivate(info) ==
    info.status \in {"low_battery", "critical"}
    \/ info.battery_level <= low_battery_threshold

\* mutant of StatusChanged: every poll logs
StatusChanged_EveryPoll(old_status, new_status) == TRUE

\* line 107: `if old_status != ups_info.status`
StatusChanged(old_status, new_status) == old_status # new_status

\* _log_power_event: the row is inserted unless the database raises, which
\* is only logged (lines 352-353).  "status_change" stands for the
\* event_type status_change_<status>; the status is the one in `ups`.
LogPowerEvent(events, event_type, dbOk) ==
    IF dbOk THEN events \cup {event_type} ELSE events

\* _process_pending_receipts (lines 441-463) over the TransactionState rows:
\* every row with receipts and fewer than 3 attempts has its receipts
\* processed and its attempts counted; `printed` counts the processing
ProcessPendingReceipts(rows) ==
    [i \in DOMAIN rows |->
        IF rows[i].pending_receipts
           /\ rows[i].print_attempts < MaxPrintAttempts
        THEN [pending_receipts |->
                 rows[i].print_attempts + 1 < MaxPrintAttempts,
              print_attempts |-> rows[i].print_attempts + 1,
              printed |-> rows[i].printed + 1]
        ELSE rows[i]]

\* db.commit() at line 463 raised: the attempts are not stored, the
\* receipts were processed all the same
ProcessedNotStored(rows) ==
    [i \in DOMAIN rows |->
        [rows[i] EXCEPT !.printed = ProcessPendingReceipts(rows)[i].printed]]

\* TransactionState rows with deferred receipts
MaxStates == 1

\* _check_ups_status (lines 91-117) with the UPSInfo `info` the platform
\* check returned; statusLogOk, modeLogOk: whether the two _log_power_event
\* calls could insert; flushOk: whether _process_pending_receipts committed.
\* PollUps is what the call does to the power service and the database.
PollUps(info, statusLogOk, modeLogOk, flushOk) ==
    LET old_status == ups.status
        changed    == StatusChanged(old_status, info.status)
        activate   == ShouldActivate(info) /\ ~safe_mode_active
        deactivate == ~ShouldActivate(info) /\ safe_mode_active
        logged1    == IF changed
                      THEN LogPowerEvent(power_events, "status_change",
                                         statusLogOk)
                      ELSE power_events
        logged2    == IF activate
                      THEN LogPowerEvent(logged1, "safe_mode_activated",
                                         modeLogOk)
                      ELSE IF deactivate
                      THEN LogPowerEvent(logged1, "safe_mode_deactivated",
                                         modeLogOk)
                      ELSE logged1
        failed     == (IF statusLogOk THEN 0 ELSE 1)
                      + (IF modeLogOk THEN 0 ELSE 1)
                      + (IF flushOk THEN 0 ELSE 1)
    IN  \* an outcome of a call that is not made is not a choice
        /\ statusLogOk \/ changed
        /\ modeLogOk \/ activate \/ deactivate
        /\ flushOk \/ deactivate
        /\ FaultCount + failed <= MaxFaults
        /\ faults' = [faults EXCEPT !.write = @ + failed]
        /\ ups' = info
        /\ power_events' = logged2
        /\ safe_mode_active' = IF activate THEN TRUE
                               ELSE IF deactivate THEN FALSE
                               ELSE safe_mode_active
        /\ states' = IF deactivate
                     THEN IF flushOk THEN ProcessPendingReceipts(states)
                          ELSE ProcessedNotStored(states)
                     ELSE states
        /\ lastPoll' = [platform |-> lastPoll.platform,
                        polled |-> TRUE,
                        old_status |-> old_status,
                        was_safe |-> safe_mode_active,
                        change_logged |-> changed,
                        change_stored |-> changed /\ statusLogOk,
                        flushed |-> deactivate]

\* a poll outside the loop tasks of SpecMonitor
CheckUpsStatus(info, statusLogOk, modeLogOk, flushOk) ==
    /\ PollUps(info, statusLogOk, modeLogOk, flushOk)
    /\ UNCHANGED <<queueFile, store, pc, queue, todo, processed, errors,
                   nextSeq, acked, dropped, loaded, attempts>>
    /\ UNCHANGED <<cvars, svars, tvars, nvars, xvars>>

\* a receipt is deferred while safe mode is active: a TransactionState row
\* gets pending_receipts, with print_attempts at its default 0
\* (models/power_event.py:103-104)
DeferReceipt ==
    /\ safe_mode_active
    /\ Len(states) < MaxStates
    /\ states' = Append(states, [pending_receipts |-> TRUE,
                                 print_attempts |-> 0, printed |-> 0])
    /\ lastPoll' = [lastPoll EXCEPT !.polled = FALSE]
    /\ UNCHANGED <<ups, safe_mode_active, power_events>>
    /\ UNCHANGED <<jvars, cvars, svars, tvars, nvars, xvars>>

---------------------------------------------------------------------------
(* SpecPower: the monitoring loop's polls on one platform *)

PowerInit ==
    /\ JournalInit
    /\ ConflictIdle
    /\ CycleIdle
    /\ ServeIdle
    /\ RegistryIdle
    /\ LaterIdle
    /\ ups = NewUPSInfo
    /\ safe_mode_active = FALSE
    /\ power_events = {}
    /\ states = <<>>
    /\ \E platform \in Platforms :
          lastPoll = [NoPoll EXCEPT !.platform = platform]

PowerNext ==
    \/ \E info \in Readings(lastPoll.platform),
          statusLogOk, modeLogOk, flushOk \in BOOLEAN :
          CheckUpsStatus(info, statusLogOk, modeLogOk, flushOk)
    \/ DeferReceipt

SpecPower == PowerInit /\ [][PowerNext]_vars

---------------------------------------------------------------------------
(* Claims about the power service, checked under SpecPower *)

\* C11: a poll that finds the service in Normal and reads a battery level at
\* or below the low threshold leaves safe_mode_active true (the flag
\* GET /power/safe-mode/status returns).
C11_LowBatteryActivatesSafeMode ==
    (/\ lastPoll.polled
     /\ ~lastPoll.was_safe
     /\ ups.battery_level <= low_battery_threshold) => safe_mode_active

\* C11 witness: the poll read 15% as low_battery in Normal and safe mode is on
C11_FifteenPercentPolled ==
    /\ lastPoll.polled
    /\ ~lastPoll.was_safe
    /\ ups = [status |-> "low_battery", battery_level |-> 15]
    /\ safe_mode_active

\* C12, as stated: the receipts of a TransactionState row deferred in safe
\* mode are processed by _process_pending_receipts once in total, over all
\* exits from safe mode.
C12_ReceiptsFlushedOnce ==
    \A i \in DOMAIN states : states[i].printed <= 1

\* C13, as stated: a poll that takes the service from Normal to SafeMode is
\* classified low_battery or critical.
C13_SafeModeOnlyOnLowOrCritical ==
    (/\ lastPoll.polled
     /\ ~lastPoll.was_safe
     /\ safe_mode_active) => ups.status \in {"low_battery", "critical"}

\* C19: a poll calls _log_power_event for a status change exactly when its
\* classification differs from the one the poll before left (not_detected
\* before the first poll), and a status-change row is inserted only by
\* such a call.
C19_StatusEventOnChangeOnly ==
    lastPoll.polled =>
        /\ lastPoll.change_logged <=> (lastPoll.old_status # ups.status)
        /\ lastPoll.change_stored => lastPoll.change_logged

\* C19 witness: an earlier poll stored a status change, and the last poll,
\* classified as the one before it, logged none
C19_SameClassificationPolled ==
    /\ lastPoll.polled
    /\ "status_change" \in power_events
    /\ lastPoll.old_status = ups.status
    /\ ups.status = "on_battery"
    /\ ~lastPoll.change_logged

---------------------------------------------------------------------------
(* SpecServe: POST /terminals/sync requests and the cycles they start      *)

\* sync requests waiting behind the running cycle
MaxRequests == 2

\* sync_terminal_data (api/terminals.py:240-261): the request adds
\* sync_data(terminal_id, force_sync) to the background tasks; nothing
\* looks at whether a cycle is running.  `during` records that one was.
SyncTerminalData(force) ==
    /\ Len(requests) < MaxRequests
    /\ requests' = Append(requests, [force |-> force,
                                     during |-> running.active,
                                     active |-> FALSE])
    /\ lastCycle' = After(FALSE)
    /\ UNCHANGED <<running, reachable>>
    /\ UNCHANGED <<jvars, cvars, terminal, remote, now, pvars, nvars, xvars>>

\* the event loop starts the next background task: sync_data is entered
BeginCycle ==
    /\ ~running.active
    /\ requests # <<>>
    /\ running' = [Head(requests) EXCEPT !.active = TRUE]
    /\ requests' = Tail(requests)
    /\ lastCycle' = After(FALSE)
    /\ UNCHANGED reachable
    /\ UNCHANGED <<jvars, cvars, terminal, remote, now, pvars, nvars, xvars>>

\* the running sync_data call does its work and returns; f is the one
\* operation that fails in it, if any
RunCycle(f) ==
    /\ running.active
    /\ running' = [running EXCEPT !.active = FALSE]
    /\ UNCHANGED requests
    /\ f # NoFailure => RunsCycle(running.force)
    /\ SyncData(TRUE, running.force,
                [i \in DOMAIN LoadSyncQueue |-> f # Failure("db", i)],
                "ok",
                [tb \in PulledTables |->
                    \A i \in DOMAIN TablesToSync :
                        TablesToSync[i] = tb => f # Failure("pull", i)],
                [k \in DOMAIN remote |-> f # Failure("write", k)],
                [i \in DOMAIN conflictFile |-> f # Failure("resolve", i)],
                TRUE, TRUE)

\* the shared folder of the main computer appears or disappears: what
\* check_network_connectivity (network_service.py:194-211) would report as
\* main_computer_reachable
NetworkChange ==
    /\ ~running.active
    /\ reachable' = ~reachable
    /\ lastCycle' = After(FALSE)
    /\ UNCHANGED <<requests, running>>
    /\ UNCHANGED <<jvars, cvars, terminal, remote, now, pvars, nvars, xvars>>

ServeInit == CycleInit

\* no operation of a cycle fails here, and the clock stands still: an
\* entry of a type without a handler is what a cycle finds to do again
ServeNext ==
    \/ \E force \in BOOLEAN : SyncTerminalData(force)
    \/ BeginCycle
    \/ RunCycle(NoFailure)
    \/ NetworkChange
    \/ \E type \in Types :
          /\ ~running.active
          /\ nextSeq <= MaxCycleEnqueue
          /\ QueueTransaction(type, "ok")

SpecServe == ServeInit /\ [][ServeNext]_vars

\* C14, as stated: a sync request received while a cycle is running is a
\* no-op: the sync_data call it starts changes neither the store, the
\* queue file, the cache, the conflict log nor the Terminal row.
C14_RequestDuringCycleIsNoOp ==
    (lastCycle.returned /\ running.during) =>
        (~lastCycle.worked /\ ~lastCycle.mutated)

\* C15, as stated: a cycle that runs while the main computer is
\* unreachable drains no entry, pulls no table and changes no retry count.
C15_UnreachableCycleDoesNoWork ==
    (lastCycle.returned /\ ~reachable) => ~lastCycle.worked

---------------------------------------------------------------------------
(* Further claims about the cycle and the resolver *)

\* C16, as stated (checked under SpecCycle): when a cycle has run, every
\* remote record modified at or before the new last_sync_time is in the
\* cache, in the version pulled or in the version a resolution wrote.
C16_CheckpointOnlyPastCachedRecords ==
    (lastCycle.returned /\ lastCycle.ran) =>
        \A k \in DOMAIN remote :
            remote[k].updated_at <= terminal.last_sync_time
            => \/ cache[k] = [src |-> "main", at |-> remote[k].updated_at]
               \/ cache[k].src \in {"local", "remote"}

\* C17, as stated (checked under SpecResolve): a last_write_wins conflict
\* whose timestamps do not both parse is never reported resolved and stays
\* in conflict_log.json after every cycle.
C17_InvalidTimestampsStayLogged ==
    \A r \in resolutions :
        (r.strategy = "last_write_wins" /\ ~ValidPair(r))
        => /\ ~r.resolved
           /\ \E i \in DOMAIN conflictFile : conflictFile[i].id = r.id

---------------------------------------------------------------------------
(* SpecCorrupt: the journal over damaged sync_queue.json files             *)

\* entries in the damaged file
MaxCorruptLen == 2

\* queue q with the retry_count key of its i-th entry missing
WithoutRetryCount(q, i) ==
    [q EXCEPT ![i] = [@ EXCEPT !.has_retry = FALSE, !.retry_count = 0]]

\* sync_queue.json files holding n enqueued entries that are damaged:
\* the text no longer parses as JSON (json.load raises at line 511, the
\* entries are still in the file), or one entry has lost its retry_count
DamagedFiles(n) ==
    {[valid |-> FALSE, q |-> q] : q \in QueuesOfLen(n)}
    \cup {[valid |-> TRUE, q |-> WithoutRetryCount(q, i)] :
             q \in QueuesOfLen(n), i \in 1..n}

CorruptInit ==
    /\ \E n \in 1..MaxCorruptLen : \E file \in DamagedFiles(n) :
          /\ queueFile = file
          /\ nextSeq = n + 1
          /\ acked = 1..n
    /\ store = <<>>
    /\ pc = "idle"
    /\ queue = <<>>
    /\ todo = <<>>
    /\ processed = 0
    /\ errors = <<>>
    /\ dropped = {}
    /\ loaded = <<>>
    /\ attempts = <<>>
    /\ faults = [crash |-> 0, write |-> 0]
    /\ ConflictIdle
    /\ CycleIdle
    /\ OthersIdle

\* every write of the file succeeds
CorruptNext ==
    \/ \E type \in Types :
          nextSeq <= MaxCorruptLen + 1 /\ QueueTransaction(type, "ok")
    \/ DrainStart
    \/ \E dbOk \in BOOLEAN : DrainStep(dbOk)
    \/ DrainSave("ok")

SpecCorrupt == CorruptInit /\ [][CorruptNext]_vars

\* C18, as stated: whatever the damage, every entry enqueued before it is
\* still in sync_queue.json unless a drain applied it or removed it at the
\* retry limit.
C18_DamagedJournalKeepsEntries ==
    \A n \in acked :
        \/ n \in SeqsOf(queueFile.q)
        \/ n \in AppliedSeqs
        \/ n \in dropped

---------------------------------------------------------------------------
(* SpecRegister: initialize_terminal calls                                 *)

\* terminal_config['terminal_id'] as the callers pass it; "" when absent
ConfigIds == {"", "POS-1", "POS-2"}
\* what _generate_terminal_id can return: TERM- and 8 hex digits of a uuid4
GeneratedIds == {"TERM-0A", "TERM-0B"}
\* _get_system_info()['hardware_id']: str(uuid.getnode()) of the machine
HardwareIds == {"hw-1", "hw-2"}

\* line 49: terminal_config.get('terminal_id') or self._generate_terminal_id()
TerminalIdFor(configId, generated) ==
    IF configId # "" THEN configId ELSE generated

\* A timestamp column holds "now" when it was written at the present
\* instant (datetime.now(), func.now()) and "earlier" once time has passed.

\* lines 55-82: the row with this terminal_id is updated (last_seen, status
\* online; its hardware_id and is_main_terminal are left as they are), or a
\* new row is added with the machine's hardware_id and the config's
\* is_main_terminal
RegisterRow(rows, terminal_id, hardware_id, is_main) ==
    IF \E t \in rows : t.terminal_id = terminal_id
    THEN {IF t.terminal_id = terminal_id
          THEN [t EXCEPT !.last_seen = "now", !.status = "online"]
          ELSE t : t \in rows}
    ELSE rows \cup {[terminal_id |-> terminal_id,
                     hardware_id |-> hardware_id,
                     is_main_terminal |-> is_main,
                     status |-> "online",
                     last_seen |-> "now",
                     last_heartbeat |-> "now"]}

\* the row with this terminal_id: query(...).first()
RowOf(rows, terminal_id) == CHOOSE t \in rows : t.terminal_id = terminal_id

\* initialize_terminal(terminal_config) on machine hardware_id; is_main is
\* terminal_config['is_main_terminal']; committed is whether db.commit() at
\* line 90 succeeded, otherwise the call raises before lines 93-94
InitializeTerminal(configId, generated, hardware_id, is_main, committed) ==
    LET terminal_id == TerminalIdFor(configId, generated)
        rows == RegisterRow(terminals, terminal_id, hardware_id, is_main)
    IN  /\ terminals' = IF committed THEN rows ELSE terminals
        /\ service' = IF committed
                      THEN [service EXCEPT
                              !.current_terminal_id = terminal_id,
                              !.is_main_terminal =
                                  RowOf(rows, terminal_id).is_main_terminal]
                      ELSE service
        /\ lastNet' = NoNetCall
        /\ lastReg' = [called |-> TRUE, raised |-> ~committed,
                       hardware_id |-> hardware_id,
                       terminal_id |-> terminal_id]
        /\ UNCHANGED <<jvars, cvars, svars, tvars, pvars, xvars>>

RegisterInit ==
    /\ JournalInit
    /\ ConflictIdle
    /\ CycleIdle
    /\ ServeIdle
    /\ PowerIdle
    /\ RegistryIdle
    /\ LaterIdle

RegisterNext ==
    \E configId \in ConfigIds, generated \in GeneratedIds,
       hardware_id \in HardwareIds, committed \in BOOLEAN :
        InitializeTerminal(configId, generated, hardware_id, FALSE, committed)

SpecRegister == RegisterInit /\ [][RegisterNext]_vars

\* C20, as stated: after any sequence of initialize_terminal calls the
\* terminals table holds at most one row per hardware_id.
C20_OneRowPerHardwareId ==
    \A t1, t2 \in terminals :
        t1.hardware_id = t2.hardware_id => t1 = t2

---------------------------------------------------------------------------
(* The Terminal row a cycle leaves (SpecCycle)                             *)

\* C29, as stated: when a cycle that ran has completed with its commit made,
\* pending_sync_count equals the number of entries left in sync_queue.json,
\* and sync_status is synced only if none is left (failed otherwise), so
\* needs_sync() is true while entries are left.
C29_PendingCountIsQueueLength ==
    (lastCycle.returned /\ lastCycle.ran /\ FaultCount = 0) =>
        /\ terminal.pending_sync_count = Len(queueFile.q)
        /\ (terminal.sync_status = "synced") => (queueFile.q = <<>>)
        /\ terminal.sync_status \in {"synced", "failed"}
        /\ (queueFile.q # <<>>) => NeedsSync(terminal)

---------------------------------------------------------------------------
(* SpecRegistry: the terminals table and the NetworkService that uses it   *)

\* Terminal.status values (models/terminal.py:53) the callers set
TerminalStatuses == {"online", "offline", "maintenance"}
\* terminal ids the registry requests name
RegistryIds == {"POS-1", "POS-2"}
\* NetworkTestRequest.network_path: absent ("") or a share
NetworkPaths == {"", "//MAIN/ceybyte"}
\* the latency the probe measures on a client, in ms
MeasuredLatencies == {0, 40}

\* Terminal.update_heartbeat (models/terminal.py:101-106): both times are
\* set; the status becomes online only when it was offline
UpdateHeartbeat(t) ==
    [t EXCEPT !.last_heartbeat = "now",
              !.last_seen = "now",
              !.status = IF t.status = "offline" THEN "online" ELSE t.status]

\* send_heartbeat (network_service.py:138-171): False without a current
\* terminal id or without its row; otherwise update_heartbeat and commit.
\* committed: whether db.commit() at line 162 succeeded; its exception
\* gives False and leaves the row as it was.
SendHeartbeat(committed) ==
    LET id    == service.current_terminal_id
        found == id # "" /\ \E t \in terminals : t.terminal_id = id
    IN  /\ committed \/ found
        /\ terminals' = IF found /\ committed
                        THEN {IF t.terminal_id = id THEN UpdateHeartbeat(t)
                              ELSE t : t \in terminals}
                        ELSE terminals
        /\ lastNet' = [op |-> "heartbeat", returned |-> found /\ committed,
                       terminal_id |-> id, report |-> NoReport]
        /\ UNCHANGED <<lastReg, service>>
        /\ UNCHANGED <<jvars, cvars, svars, tvars, pvars, xvars>>

\* PUT /terminals/{terminal_id} (api/terminals.py:157-192) with a status in
\* the body: 404 without the row, otherwise the status is stored
UpdateTerminal(terminal_id, status) ==
    /\ \E t \in terminals : t.terminal_id = terminal_id
    /\ terminals' = {IF t.terminal_id = terminal_id
                     THEN [t EXCEPT !.status = status]
                     ELSE t : t \in terminals}
    /\ lastNet' = NoNetCall
    /\ UNCHANGED <<lastReg, service>>
    /\ UNCHANGED <<jvars, cvars, svars, tvars, pvars, xvars>>

\* DELETE /terminals/{terminal_id} (api/terminals.py:338-366): 404 without
\* the row, 400 for the main terminal, otherwise the row is deleted
RemoveTerminal(terminal_id) ==
    /\ \E t \in terminals : t.terminal_id = terminal_id
    /\ ~RowOf(terminals, terminal_id).is_main_terminal
    /\ terminals' = {t \in terminals : t.terminal_id # terminal_id}
    /\ lastNet' = NoNetCall
    /\ UNCHANGED <<lastReg, service>>
    /\ UNCHANGED <<jvars, cvars, svars, tvars, pvars, xvars>>

\* check_network_connectivity (lines 173-234) for the service fields svc.
\* internet: socket.create_connection(("8.8.8.8", 53)) succeeded;
\* path_exists, db_exists: os.path.exists of the share and of the database
\* file in it; latency: the time measured around them.
CheckNetworkConnectivity(svc, internet, path_exists, db_exists, latency) ==
    IF ~internet
    THEN NoReport
    ELSE IF ~svc.is_main_terminal /\ svc.network_path # ""
    THEN IF path_exists
         THEN [network_available |-> TRUE,
               main_computer_reachable |-> TRUE,
               shared_folder_accessible |-> TRUE,
               database_accessible |-> db_exists,
               latency_ms |-> latency]
         ELSE [NoReport EXCEPT !.network_available = TRUE]
    ELSE [network_available |-> TRUE,
          main_computer_reachable |-> TRUE,
          shared_folder_accessible |-> TRUE,
          database_accessible |-> TRUE,
          latency_ms |-> 1]

\* POST /terminals/test-network (api/terminals.py:217-237): a request with
\* a network_path sets the service's path and role, then the probe runs
TestNetworkConnectivity(network_path, terminal_type, internet, path_exists, db_exists, latency) ==
    LET svc == IF network_path # ""
               THEN [service EXCEPT
                       !.network_path = network_path,
                       !.is_main_terminal = (terminal_type = "main")]
               ELSE service
        asClient == ~svc.is_main_terminal /\ svc.network_path # ""
    IN  \* an outcome of a call that is not made is not a choice
        /\ path_exists => (internet /\ asClient)
        /\ db_exists => path_exists
        /\ (latency # 0) => path_exists
        /\ (network_path = "") => (terminal_type = "client")
        /\ service' = svc
        /\ lastNet' = [op |-> "probe", returned |-> TRUE, terminal_id |-> "",
                       report |-> CheckNetworkConnectivity(svc, internet,
                                      path_exists, db_exists, latency)]
        /\ UNCHANGED <<terminals, lastReg>>
        /\ UNCHANGED <<jvars, cvars, svars, tvars, pvars, xvars>>

\* time passes: what was written now was written earlier
Later(t) ==
    [t EXCEPT !.last_seen = "earlier", !.last_heartbeat = "earlier"]

TimePasses ==
    /\ \E t \in terminals : t # Later(t)
    /\ terminals' = {Later(t) : t \in terminals}
    /\ lastNet' = NoNetCall
    /\ UNCHANGED <<lastReg, service>>
    /\ UNCHANGED <<jvars, cvars, svars, tvars, pvars, xvars>>

\* the machine this NetworkService runs on
ThisMachine == "hw-1"

RegistryInit == RegisterInit

RegistryNext ==
    \/ \E configId \in RegistryIds, is_main, committed \in BOOLEAN :
          InitializeTerminal(configId, "TERM-0A", ThisMachine, is_main,
                             committed)
    \/ \E committed \in BOOLEAN : SendHeartbeat(committed)
    \/ \E id \in RegistryIds, status \in TerminalStatuses :
          UpdateTerminal(id, status)
    \/ \E id \in RegistryIds : RemoveTerminal(id)
    \/ \E network_path \in NetworkPaths, terminal_type \in {"main", "client"},
          internet, path_exists, db_exists \in BOOLEAN,
          latency \in MeasuredLatencies :
          TestNetworkConnectivity(network_path, terminal_type, internet,
                                  path_exists, db_exists, latency)
    \/ TimePasses

SpecRegistry == RegistryInit /\ [][RegistryNext]_vars

\* C21, as stated: after a send_heartbeat that returned True, the row of
\* the current terminal has last_seen and last_heartbeat set at this
\* instant and its status is online, whatever the status was before.
C21_HeartbeatSetsOnline ==
    (lastNet.op = "heartbeat" /\ lastNet.returned) =>
        \A t \in terminals :
            t.terminal_id = lastNet.terminal_id =>
                /\ t.last_seen = "now"
                /\ t.last_heartbeat = "now"
                /\ t.status = "online"

\* C22, as stated: once a terminal is registered, exactly one row of the
\* terminals table has is_main_terminal set, whatever calls were made.
C22_ExactlyOneMainTerminal ==
    terminals # {} =>
        Cardinality({t \in terminals : t.is_main_terminal}) = 1

\* C23, as stated: a probe made while the service is the main terminal
\* reports the main computer reachable, the shared folder and the database
\* accessible and a latency of 1 ms, whatever the external network does.
C23_MainTerminalProbeFullyReachable ==
    (lastNet.op = "probe" /\ service.is_main_terminal) =>
        /\ lastNet.report.main_computer_reachable
        /\ lastNet.report.shared_folder_accessible
        /\ lastNet.report.database_accessible
        /\ lastNet.report.latency_ms = 1

---------------------------------------------------------------------------
(* SpecCheckpoint: TransactionState rows of one PowerService               *)

\* committed save_transaction_state calls explored for one session
MaxSaves == 2

\* the state_type values _cleanup_old_states deletes (line 478)
TerminalStateTypes == {"recovered", "failed", "completed"}

\* the rows of a session on a terminal: the filter of lines 363-366, 417-420
StateOf(rows, session_id, tid) ==
    {r \in rows : r.session_id = session_id /\ r.terminal_id = tid}

\* lines 376-386: the row a first save creates; state_type and
\* recovery_attempted take the column defaults (power_event.py:92, 97);
\* old: created_at is before the sweep's cutoff of 48 hours ago
NewState(session_id, tid) ==
    [session_id |-> session_id, terminal_id |-> tid, state_type |-> "active",
     recovery_attempted |-> FALSE, auto_save_count |-> 1, old |-> FALSE]

\* mutant of SavedRow: a later save leaves the counter
SavedRow_CountStays(r) == r

\* lines 370-373: a later save of the session (the data, the last action
\* and updated_at are not kept in the model)
SavedRow(r) == [r EXCEPT !.auto_save_count = @ + 1]

\* mutant of MarkedRow: the flags are left as they were
MarkedRow_Unflagged(r, successful) == r

\* lines 423-427
MarkedRow(r, successful) ==
    [r EXCEPT !.recovery_attempted = TRUE,
              !.state_type = IF successful THEN "recovered" ELSE "failed"]

\* mutant of Purgeable: every old row
Purgeable_AnyOld(r) == r.old

\* the filter of lines 476-479
Purgeable(r) == r.old /\ r.state_type \in TerminalStateTypes

\* get_pending_transaction_states (lines 395-410): the session ids of the
\* rows returned; queryOk: the query did not raise (otherwise [])
GetPendingTransactionStates(rows, tid, queryOk) ==
    IF queryOk
    THEN {r.session_id : r \in {x \in rows : /\ x.terminal_id = tid
                                             /\ x.state_type = "active"
                                             /\ ~x.recovery_attempted}}
    ELSE {}

\* what the history keeps of a row the sweep deleted
PurgeRecord(r) ==
    [session_id |-> r.session_id, state_type |-> r.state_type, old |-> r.old]

PurgedSessions == {p.session_id : p \in ckLog.purged}

\* save_transaction_state (lines 355-393); committed: db.commit() at line
\* 389 succeeded, otherwise the error is logged and nothing is stored
SaveTransactionState(session_id, committed) ==
    LET found == StateOf(checkpoints, session_id, power_terminal_id)
    IN  /\ ckLog.saves[session_id] < MaxSaves
        /\ checkpoints' =
              IF ~committed THEN checkpoints
              ELSE IF found # {}
              THEN LET r == CHOOSE x \in found : TRUE
                   IN  (checkpoints \ {r}) \cup {SavedRow(r)}
              ELSE checkpoints \cup {NewState(session_id, power_terminal_id)}
        /\ ckLog' = IF committed
                    THEN [ckLog EXCEPT
                            !.saves[session_id] = @ + 1,
                            !.resaved = IF session_id \in ckLog.marked
                                        THEN @ \cup {session_id} ELSE @]
                    ELSE ckLog
        /\ UNCHANGED <<jvars, cvars, svars, tvars, pvars, nvars, mvars, raced>>

\* mark_transaction_recovered (lines 412-433); committed: db.commit() at
\* line 429 succeeded, otherwise the error is logged and the row is as before
MarkTransactionRecovered(session_id, successful, committed) ==
    LET found == StateOf(checkpoints, session_id, power_terminal_id)
    IN  /\ committed \/ found # {}
        /\ checkpoints' =
              IF committed /\ found # {}
              THEN LET r == CHOOSE x \in found : TRUE
                   IN  (checkpoints \ {r}) \cup {MarkedRow(r, successful)}
              ELSE checkpoints
        /\ ckLog' = IF found = {} THEN ckLog
                    ELSE [ckLog EXCEPT
                            !.called = @ \cup {session_id},
                            !.marked = IF committed THEN @ \cup {session_id}
                                       ELSE @]
        /\ UNCHANGED <<jvars, cvars, svars, tvars, pvars, nvars, mvars, raced>>

\* _cleanup_old_states (lines 468-486) on the rows and the history;
\* committed: db.commit() at line 482 succeeded, otherwise the error is
\* logged and nothing is deleted
Sweep(committed) ==
    LET deleted == {r \in checkpoints : Purgeable(r)}
    IN  /\ committed \/ deleted # {}
        /\ checkpoints' = IF committed THEN checkpoints \ deleted
                          ELSE checkpoints
        /\ ckLog' = [ckLog EXCEPT
                       !.purged = IF committed
                                  THEN @ \cup {PurgeRecord(r) : r \in deleted}
                                  ELSE @,
                       !.spared = @ \cup
                           {r.session_id : r \in
                               {x \in checkpoints :
                                   x.old /\ x.state_type = "active"}}]

CleanupOldStates(committed) ==
    /\ Sweep(committed)
    /\ UNCHANGED <<jvars, cvars, svars, tvars, pvars, nvars, mvars, raced>>

\* 48 hours pass: every row's created_at is now before the cutoff
RetentionPasses ==
    /\ \E r \in checkpoints : ~r.old
    /\ checkpoints' = {[r EXCEPT !.old = TRUE] : r \in checkpoints}
    /\ UNCHANGED ckLog
    /\ UNCHANGED <<jvars, cvars, svars, tvars, pvars, nvars, mvars, raced>>

CheckpointInit == JournalInit /\ ConflictIdle /\ CycleIdle /\ OthersIdle

CheckpointNext ==
    \/ \E s \in Sessions, committed \in BOOLEAN :
          SaveTransactionState(s, committed)
    \/ \E s \in Sessions, successful, committed \in BOOLEAN :
          MarkTransactionRecovered(s, successful, committed)
    \/ \E committed \in BOOLEAN : CleanupOldStates(committed)
    \/ RetentionPasses

SpecCheckpoint == CheckpointInit /\ [][CheckpointNext]_vars

\* C24: there is at most one TransactionState row per terminal and session
\* id, and as long as the sweep has not deleted the session's row its
\* auto_save_count is the number of saves committed for the session: 1
\* after the first, one more after each later one.
C24_OneRowCountingSaves ==
    /\ \A r1, r2 \in checkpoints :
          (r1.session_id = r2.session_id /\ r1.terminal_id = r2.terminal_id)
              => r1 = r2
    /\ \A s \in Sessions \ PurgedSessions :
          /\ (ckLog.saves[s] > 0) =>
                StateOf(checkpoints, s, power_terminal_id) # {}
          /\ \A r \in StateOf(checkpoints, s, power_terminal_id) :
                r.auto_save_count = ckLog.saves[s]

\* a session has been saved twice
C24_SavedTwice ==
    \E r \in checkpoints :
        r.auto_save_count = 2 /\ r.session_id \notin PurgedSessions

\* C25: every row the sweep has deleted was older than the retention
\* window and in state recovered, failed or completed; no active row was
\* deleted, whatever its age.
C25_SweepDeletesOnlyOldClosedStates ==
    \A p \in ckLog.purged :
        /\ p.old
        /\ p.state_type \in TerminalStateTypes
        /\ p.state_type # "active"

\* a sweep that deleted rows has left an old active row in place
C25_OldActiveRowSpared ==
    /\ ckLog.purged # {}
    /\ \E r \in checkpoints :
          /\ r.old
          /\ r.state_type = "active"
          /\ r.session_id \in ckLog.spared

\* the first half of C26 for the sessions in `ended`, the second half as
\* stated: a saved session for which mark_transaction_recovered was not
\* called is returned by a query that does not raise
OneShot(ended) ==
    LET pending == GetPendingTransactionStates(checkpoints,
                                               power_terminal_id, TRUE)
    IN  /\ \A s \in ended : s \notin pending
        /\ \A s \in Sessions \ (ckLog.called \cup PurgedSessions) :
              (ckLog.saves[s] > 0) => s \in pending

---------------------------------------------------------------------------
(* SpecMonitor: start_monitoring, stop_monitoring and the loop tasks       *)

\* start_monitoring calls explored: each creates one _monitoring_loop task
MaxTasks == 2

\* the terminal_id argument of start_monitoring; "" stands for None
MonitorIds == {"", "TERMINAL-1"}

\* a task asyncio.create_task has just created: it has yet to run the
\* `while self.monitoring_active` test for the first time.  stopped:
\* stop_monitoring was called while the task was asleep in its loop;
\* rechecked: the task polled the UPS after that
NewTask == [pc |-> "top", stopped |-> FALSE, rechecked |-> FALSE]

LiveTasks == {i \in DOMAIN tasks : tasks[i].pc # "done"}

\* start_monitoring (power_service.py:55-64): the terminal id when given,
\* the flag, and a new task, whatever tasks there are already
StartMonitoring(tid) ==
    /\ Len(tasks) < MaxTasks
    /\ power_terminal_id' = IF tid # "" THEN tid ELSE power_terminal_id
    /\ monitoring_active' = TRUE
    /\ tasks' = Append(tasks, NewTask)
    /\ UNCHANGED <<jvars, cvars, svars, tvars, pvars, nvars, kvars, raced>>

\* stop_monitoring (lines 66-69): the flag is cleared
StopMonitoring ==
    /\ monitoring_active' = FALSE
    /\ tasks' = [i \in DOMAIN tasks |->
                    IF tasks[i].pc = "sleeping"
                    THEN [tasks[i] EXCEPT !.stopped = TRUE]
                    ELSE tasks[i]]
    /\ UNCHANGED power_terminal_id
    /\ UNCHANGED <<jvars, cvars, svars, tvars, pvars, nvars, kvars, raced>>

\* _monitoring_loop (lines 71-89), from the while test to the sleep: with
\* the flag set the task polls the UPS, sweeps the old states and sleeps;
\* with the flag clear it ends
LoopIteration(i, info) ==
    /\ i \in DOMAIN tasks
    /\ tasks[i].pc = "top"
    /\ IF monitoring_active
       THEN /\ PollUps(info, TRUE, TRUE, TRUE)
            /\ Sweep(TRUE)
            /\ tasks' = [tasks EXCEPT
                           ![i].pc = "sleeping",
                           ![i].rechecked = @ \/ tasks[i].stopped]
       ELSE /\ tasks' = [tasks EXCEPT ![i].pc = "done"]
            /\ UNCHANGED <<pvars, faults, kvars>>
    /\ UNCHANGED <<monitoring_active, power_terminal_id, raced>>
    /\ UNCHANGED <<queueFile, store, pc, queue, todo, processed, errors,
                   nextSeq, acked, dropped, loaded, attempts>>
    /\ UNCHANGED <<cvars, svars, tvars, nvars>>

\* asyncio.sleep(30) (or sleep(60) after an exception) is over
Wake(i) ==
    /\ i \in DOMAIN tasks
    /\ tasks[i].pc = "sleeping"
    /\ tasks' = [tasks EXCEPT ![i].pc = "top"]
    /\ UNCHANGED <<monitoring_active, power_terminal_id, raced>>
    /\ UNCHANGED <<jvars, cvars, svars, tvars, pvars, nvars, kvars>>

\* the service as constructed, on a platform polled with upsc/apcaccess
\* or on one whose UPS is simulated
MonitorInit == PowerInit /\ lastPoll.platform \in {"Linux", "Other"}

MonitorNext ==
    \/ \E tid \in MonitorIds : StartMonitoring(tid)
    \/ StopMonitoring
    \/ \E i \in 1..MaxTasks, info \in Readings(lastPoll.platform) :
          LoopIteration(i, info)
    \/ \E i \in 1..MaxTasks : Wake(i)

SpecMonitor == MonitorInit /\ [][MonitorNext]_vars

\* C28, as stated (its safety half): a loop task that was asleep in an
\* iteration when stop_monitoring was called polls the UPS no more once
\* that iteration is over, whatever start and stop calls follow.
C28_StoppedLoopPollsNoMore ==
    \A i \in DOMAIN tasks : ~tasks[i].rechecked

\* C30, as stated: at most one _monitoring_loop task is live at any time.
C30_AtMostOneLiveLoop == Cardinality(LiveTasks) <= 1

---------------------------------------------------------------------------
(* SpecRace: queue_transaction and a drain of the same sync_queue.json     *)

\* queue_transaction (lines 151-175) run by a caller that does not wait for
\* the drain: SyncService holds no lock and sync_queue.json is opened by
\* path at every call, so the call loads the file as it is, appends and
\* saves while _process_sync_queue is between its load (line 245) and its
\* save (line 269).  Every write of the file succeeds here.
QueueTransactionDuringDrain(type) ==
    /\ pc = "loop"
    /\ nextSeq <= MaxEnqueue
    /\ queueFile' = SaveSyncQueue(Append(LoadSyncQueue, NewEntry(type)), "ok")
    /\ acked' = acked \cup {nextSeq}
    /\ nextSeq' = nextSeq + 1
    /\ raced' = raced \cup {nextSeq}
    /\ lastCycle' = After(TRUE)
    /\ UNCHANGED <<store, pc, queue, todo, processed, errors,
                   dropped, loaded, attempts, faults>>
    /\ UNCHANGED <<cvars, terminal, remote, now>>
    /\ UNCHANGED <<tvars, pvars, nvars, kvars, mvars>>

RaceInit == Init

RaceNext ==
    \/ \E type \in Types : QueueTransaction(type, "ok")
    \/ \E type \in Types : QueueTransactionDuringDrain(type)
    \/ DrainStart
    \/ \E dbOk \in BOOLEAN : DrainStep(dbOk)
    \/ DrainSave("ok")

SpecRace == RaceInit /\ [][RaceNext]_vars

=============================================================================
